---- MODULE Spec2Model ----
(***************************************************************************)
(* GraphAutoModel (autokeras/auto/auto_model.py): the derivation of the    *)
(* node ids and of the hypermodel order from a graph of HyperBlocks        *)
(* (_build_network, _search_network, _add_hypermodel, _add_node) and the   *)
(* materialization of a model for a hyperparameter sample (build).         *)
(* The graph of HyperNodes and HyperBlocks is the input: it is drawn in    *)
(* Init and never changes afterwards.                                      *)
(***************************************************************************)
EXTENDS Integers, Sequences, FiniteSets, TLC

\* ------------------------------------------------------------------ bounds
NumNodes == 4
NumBlocks == 2
MaxIn == 2
MaxOut == 2
MaxInputs == 2
MaxOutputs == 2
MaxRuns == 2
NumCalls == 2
NumHp == 2

Nodes == 0 .. (NumNodes - 1)
Blocks == 1 .. NumBlocks
NoNode == 0 - 1
Calls == 1 .. NumCalls
HpSamples == 1 .. NumHp

VARIABLES
    hyper_inputs,      \* hypermodel.inputs, per block: a sequence of nodes
    hyper_outputs,     \* hypermodel.outputs, per block: a sequence of nodes
    inputs,            \* self.inputs
    outputs,           \* self.outputs
    node_to_id,        \* self._node_to_id
    nodes,             \* self._nodes
    hypermodels,       \* self._hypermodels
    hypermodel_to_id,  \* self._hypermodel_to_id
    pc,                \* where the instance is in __init__ / _build_network
    error,             \* the exception construction ended with, or "none"
    message,           \* the message of that exception: its text and what it is formatted with
    root_idx,          \* position of the loop over self.inputs (line 78)
    entered,           \* per call of line 79 made so far: the nodes _search_network
                       \*   was called on, in the order of the calls
    visited_nodes,     \* visited_nodes of the ordering pass (line 90)
    queue,             \* queue of the ordering pass (line 91)
    input_node,        \* the node taken from the queue (line 96), or NoNode
    hm_idx,            \* position of the loop over input_node.out_hypermodels
    runs,              \* number of derivations started so far
    first,             \* outcome of the first derivation that ended
    build_pc,          \* per call of build: where the call is
    hp,                \* per call of build: its hyperparameter sample
    real_nodes,        \* per call of build: real_nodes, node id -> concrete value
    build_idx,         \* per call of build: position of the loop of line 57
    invoked,           \* per call of build: the hypermodel.build calls made, in order,
                       \*   each with the ids real_nodes held when it was made
    model              \* per call of build: the inputs and outputs given to tf.keras.Model

topo == <<hyper_inputs, hyper_outputs, inputs, outputs>>
inst == <<node_to_id, nodes, hypermodels, hypermodel_to_id>>
ctrl == <<pc, error, message, root_idx, entered, visited_nodes, queue, input_node, hm_idx>>
hist == <<runs, first>>
mat == <<build_pc, hp, real_nodes, build_idx, invoked, model>>
vars == <<topo, inst, ctrl, hist, mat>>

\* ------------------------------------------------------------------ helpers
Range(s) == {s[i] : i \in 1 .. Len(s)}

Min(S) == CHOOSE x \in S : \A y \in S : x <= y

RECURSIVE SortedSeq(_)
\* sorted(list(S)) for a set of integers
SortedSeq(S) == IF S = {} THEN <<>> ELSE <<Min(S)>> \o SortedSeq(S \ {Min(S)})

RECURSIVE Sum(_, _)
Sum(f, k) == IF k = 0 THEN 0 ELSE f[k] + Sum(f, k - 1)

EmptyMap == [x \in {} |-> 0]

\* ------------------------------------------------------------------ the graph
\* HyperBlock.__call__ creates n_output_node fresh HyperNodes per block:
\* the nodes no block produces come first, then the outputs of block 1, 2, ...
OutputsOf(oc, b) ==
    LET start == (NumNodes - Sum(oc, NumBlocks)) + Sum(oc, b - 1)
    IN  [i \in 1 .. oc[b] |-> start + i - 1]

OutCounts == {oc \in [Blocks -> 1 .. MaxOut] : Sum(oc, NumBlocks) <= NumNodes}

InputLists == {SortedSeq(S) : S \in {T \in SUBSET Nodes : Cardinality(T) \in 1 .. MaxIn}}

NodeLists(k) ==
    UNION {{s \in [1 .. n -> Nodes] : \A i, j \in 1 .. n : i # j => s[i] # s[j]} : n \in 1 .. k}

\* input_node.out_hypermodels: add_out_hypermodel appends the block at each
\* __call__ that takes the node as an input; blocks are numbered in call order.
out_hypermodels(n) == SortedSeq({b \in Blocks : n \in Range(hyper_inputs[b])})

\* output_node.in_hypermodels: add_in_hypermodel at the __call__ creating the node.
in_hypermodels(n) == SortedSeq({b \in Blocks : n \in Range(hyper_outputs[b])})

RECURSIVE Flatten(_)
Flatten(ss) == IF ss = <<>> THEN <<>> ELSE Head(ss) \o Flatten(Tail(ss))

\* the output nodes the two nested loops of _search_network go through, in order
SearchTargets(n) ==
    Flatten([k \in 1 .. Len(out_hypermodels(n)) |-> hyper_outputs[out_hypermodels(n)[k]]])

\* ------------------------------------------------------------------ _add_node
\* (variant) the id is given without looking whether the node holds one
AddNodeAlways(m, n) == (n :> Cardinality(DOMAIN m)) @@ m

AddNode(m, n) == IF n \in DOMAIN m THEN m ELSE m @@ (n :> Cardinality(DOMAIN m))

RECURSIVE AddNodes(_, _)
AddNodes(m, s) == IF s = <<>> THEN m ELSE AddNodes(AddNode(m, Head(s)), Tail(s))

\* ------------------------------------------------------------------ _search_network
\* st = [node_to_id, in_stack, visited, cycle, entered]; cycle is set when the
\* ValueError of line 126 is raised, and everything is left as it was then;
\* entered lists the nodes the function was called on.
\* (variant) the stack is looked at for unvisited nodes only
OnStackUnvisitedOnly(output_node, st) ==
    output_node \in st.in_stack /\ output_node \notin st.visited

\* line 125: the output node is on the active recursion path
OnStack(output_node, st) == output_node \in st.in_stack

\* (variant) ids of output nodes are not looked at
OutputsReachedSelfOnly(reached, output_node, m) == reached

\* lines 130-131: an output node that holds an id makes the node interesting
OutputsReached(reached, output_node, m) == reached \/ output_node \in DOMAIN m

\* (variant) outputs_reached always starts as False
IsOutputNever(n) == FALSE

\* lines 119-121: outputs_reached starts as True for a designated output
IsOutput(n) == n \in Range(outputs)

\* (variant) the node stays in in_stack_nodes
RemoveNothing(in_stack, n) == in_stack

\* line 136: in_stack_nodes.remove(input_node)
Remove(in_stack, n) == in_stack \ {n}

\* (variant) every output node is taken as not visited
VisitedNever(output_node, st) == FALSE

\* line 127: the output node is in visited_nodes
Visited(output_node, st) == output_node \in st.visited

RECURSIVE SearchNetwork(_, _), SearchOutputs(_, _, _, _)
SearchNetwork(n, st) ==
    LET st1 == [st EXCEPT !.visited = @ \cup {n}, !.in_stack = @ \cup {n},
                          !.entered = Append(@, n)]
        r == SearchOutputs(SearchTargets(n), 1, st1, IsOutput(n))
    IN  IF r.st.cycle THEN r.st
        ELSE LET st2 == IF r.reached
                        THEN [r.st EXCEPT !.node_to_id = AddNode(@, n)]
                        ELSE r.st
             IN  [st2 EXCEPT !.in_stack = Remove(@, n)]

SearchOutputs(targets, i, st, reached) ==
    IF i > Len(targets) THEN [st |-> st, reached |-> reached]
    ELSE LET output_node == targets[i] IN
         IF OnStack(output_node, st)
         THEN [st |-> [st EXCEPT !.cycle = TRUE], reached |-> reached]
         ELSE LET st1 == IF ~Visited(output_node, st)
                         THEN SearchNetwork(output_node, st)
                         ELSE st
              IN  IF st1.cycle THEN [st |-> st1, reached |-> reached]
                  ELSE SearchOutputs(targets, i + 1, st1,
                                     OutputsReached(reached, output_node, st1.node_to_id))

\* (variant) the ids given so far are dropped at every root
SearchFromReset(root, m) ==
    SearchNetwork(root, [node_to_id |-> EmptyMap, in_stack |-> {}, visited |-> {},
                         cycle |-> FALSE, entered |-> <<>>])

\* the call of line 79: fresh in_stack_nodes and visited_nodes for every root
SearchFrom(root, m) ==
    SearchNetwork(root, [node_to_id |-> m, in_stack |-> {}, visited |-> {}, cycle |-> FALSE,
                         entered |-> <<>>])

\* ------------------------------------------------------------------ _add_hypermodel
\* (variant) the hypermodel is appended at every visit
RegisterAlways(hms, h) == Append(hms, h)

\* lines 139-142: register the hypermodel unless it is registered already
Register(hms, h) == IF h \in Range(hms) THEN hms ELSE Append(hms, h)

RegisterId(hms, h2id, h) == IF h \in Range(hms) THEN h2id ELSE h2id @@ (h :> Len(hms))

\* ------------------------------------------------------------------ the exceptions
\* hyper_block.py lines 19-21: the name of a block, prefix + '_' + uid
Name(h) == <<"HyperBlock", h>>

\* no exception raised
NoMessage == [text |-> "", args |-> <<>>]

\* line 126
CycleMessage == [text |-> "The network has a cycle.", args |-> <<>>]

\* line 85
DisconnectedMessage == [text |-> "Inputs and outputs not connected.", args |-> <<>>]

\* lines 147-150: the message formatted with hypermodel.name
MissingInputMessage(h) ==
    [text |-> "A required input is missing for HyperModel {name}.", args |-> <<Name(h)>>]

\* line 111: in_hypermodels[0] of an empty list
IndexErrorMessage == [text |-> "list index out of range", args |-> <<>>]

\* (variant) only the first input of the hypermodel is looked at
MissingInputFirstOnly(m, h) == hyper_inputs[h][1] \notin DOMAIN m

\* lines 145-150: some input of the hypermodel holds no id
MissingInput(m, h) == \E i \in 1 .. Len(hyper_inputs[h]) : hyper_inputs[h][i] \notin DOMAIN m

\* (variant) every out-hypermodel is taken
AnyOutputAlways(m, h) == TRUE

\* line 100: at least one output node of the hypermodel is in the interested nodes
AnyOutputInterested(m, h) ==
    \E i \in 1 .. Len(hyper_outputs[h]) : hyper_outputs[h][i] \in DOMAIN m

\* lines 104-109: the output nodes put on the queue, in order
NewlyVisited(m, visited, h) ==
    SelectSeq(hyper_outputs[h], LAMBDA n : n \notin visited /\ n \in DOMAIN m)

\* ------------------------------------------------------------------ outcome
\* what a derivation ended with: the error, or the ids and the order
Outcome(err, m, hms, h2id) ==
    [error |-> err, node_to_id |-> m, hypermodels |-> hms, hypermodel_to_id |-> h2id]

Record(err, m, hms, h2id) ==
    first' = IF first = <<>> THEN <<Outcome(err, m, hms, h2id)>> ELSE first

\* ------------------------------------------------------------------ Init
Init ==
    /\ \E oc \in OutCounts : hyper_outputs = [b \in Blocks |-> OutputsOf(oc, b)]
    /\ hyper_inputs \in [Blocks -> InputLists]
    /\ inputs \in NodeLists(MaxInputs)
    /\ outputs \in {SortedSeq(S) : S \in {T \in SUBSET Nodes : Cardinality(T) \in 1 .. MaxOutputs}}
    /\ node_to_id = EmptyMap
    /\ nodes = <<>>
    /\ hypermodels = <<>>
    /\ hypermodel_to_id = EmptyMap
    /\ pc = "init"
    /\ error = "none"
    /\ message = NoMessage
    /\ root_idx = 0
    /\ entered = <<>>
    /\ visited_nodes = {}
    /\ queue = <<>>
    /\ input_node = NoNode
    /\ hm_idx = 0
    /\ runs = 0
    /\ first = <<>>
    /\ build_pc = [c \in Calls |-> "idle"]
    /\ hp = [c \in Calls |-> 0]
    /\ real_nodes = [c \in Calls |-> EmptyMap]
    /\ build_idx = [c \in Calls |-> 0]
    /\ invoked = [c \in Calls |-> <<>>]
    /\ model = [c \in Calls |-> <<>>]

\* ------------------------------------------------------------------ __init__
\* lines 46-49 of a further instance built on the same graph
Construct ==
    /\ pc \in {"error", "built"}
    /\ runs < MaxRuns
    /\ \A c \in Calls : build_pc[c] = "idle"
    /\ node_to_id' = EmptyMap
    /\ nodes' = <<>>
    /\ hypermodels' = <<>>
    /\ hypermodel_to_id' = EmptyMap
    /\ pc' = "init"
    /\ error' = "none"
    /\ message' = NoMessage
    /\ root_idx' = 0
    /\ entered' = <<>>
    /\ visited_nodes' = {}
    /\ queue' = <<>>
    /\ input_node' = NoNode
    /\ hm_idx' = 0
    /\ UNCHANGED <<topo, hist, mat>>

\* ------------------------------------------------------------------ _build_network
\* line 75, entering the loop of line 78; called by __init__ (line 50)
BuildNetwork ==
    /\ pc = "init"
    /\ node_to_id' = EmptyMap
    /\ root_idx' = 1
    /\ entered' = <<>>
    /\ pc' = "search"
    /\ runs' = runs + 1
    /\ UNCHANGED <<topo, nodes, hypermodels, hypermodel_to_id, error, message, visited_nodes,
                   queue, input_node, hm_idx, first, mat>>

\* _build_network called again on the constructed instance
Rederive ==
    /\ pc = "built"
    /\ runs < MaxRuns
    /\ \A c \in Calls : build_pc[c] = "idle"
    /\ node_to_id' = EmptyMap
    /\ root_idx' = 1
    /\ entered' = <<>>
    /\ pc' = "search"
    /\ runs' = runs + 1
    /\ UNCHANGED <<topo, nodes, hypermodels, hypermodel_to_id, error, message, visited_nodes,
                   queue, input_node, hm_idx, first, mat>>

\* one iteration of the loop of lines 78-79
SearchRoot ==
    /\ pc = "search"
    /\ root_idx <= Len(inputs)
    /\ LET r == SearchFrom(inputs[root_idx], node_to_id) IN
        /\ node_to_id' = r.node_to_id
        /\ entered' = Append(entered, r.entered)
        /\ IF r.cycle
           THEN /\ pc' = "error"
                /\ error' = "cycle"
                /\ message' = CycleMessage
                /\ root_idx' = root_idx
                /\ UNCHANGED <<nodes, hypermodels, hypermodel_to_id>>
                /\ Record("cycle", r.node_to_id, hypermodels, hypermodel_to_id)
           ELSE /\ root_idx' = root_idx + 1
                /\ UNCHANGED <<pc, error, message, first>>
    /\ UNCHANGED <<topo, nodes, hypermodels, hypermodel_to_id, visited_nodes, queue,
                   input_node, hm_idx, runs, mat>>

\* (variant) only self.inputs are checked
DesignatedInputsOnly == inputs

\* lines 80-81: the nodes holding an id, sorted by id
SortedById(m) == [i \in 1 .. Cardinality(DOMAIN m) |-> CHOOSE n \in DOMAIN m : m[n] = i - 1]

\* line 83: the nodes that must hold an id, self.inputs + self.outputs
Designated == inputs \o outputs

\* (variant) the visited set of the previous derivation is kept
StaleVisited == visited_nodes

\* line 90: visited_nodes = set()
FreshVisited == {}

\* lines 80-94: sort the nodes, check the designated nodes, seed the queue
StartOrdering ==
    /\ pc = "search"
    /\ root_idx > Len(inputs)
    /\ nodes' = SortedById(node_to_id)
    /\ IF \E n \in Range(Designated) : n \notin DOMAIN node_to_id
       THEN /\ pc' = "error"
            /\ error' = "disconnected"
            /\ message' = DisconnectedMessage
            /\ UNCHANGED <<node_to_id, hypermodels, hypermodel_to_id, visited_nodes, queue>>
            /\ Record("disconnected", node_to_id, hypermodels, hypermodel_to_id)
       ELSE /\ hypermodels' = <<>>
            /\ hypermodel_to_id' = EmptyMap
            /\ visited_nodes' = FreshVisited \cup Range(inputs)
            /\ queue' = inputs
            /\ pc' = "order"
            /\ UNCHANGED <<node_to_id, error, message, first>>
    /\ input_node' = NoNode
    /\ hm_idx' = 0
    /\ UNCHANGED <<topo, root_idx, entered, runs, mat>>

\* the loop of line 97 has gone through every out-hypermodel of input_node
LoopDone == input_node = NoNode \/ hm_idx > Len(out_hypermodels(input_node))

\* lines 95-96
QueueGet ==
    /\ pc = "order"
    /\ LoopDone
    /\ queue # <<>>
    /\ input_node' = Head(queue)
    /\ queue' = Tail(queue)
    /\ hm_idx' = 1
    /\ UNCHANGED <<topo, inst, pc, error, message, root_idx, entered, visited_nodes, hist, mat>>

\* one iteration of the loop of lines 97-109, _add_hypermodel included
VisitHypermodel ==
    /\ pc = "order"
    /\ ~LoopDone
    /\ LET h == out_hypermodels(input_node)[hm_idx] IN
        IF ~AnyOutputInterested(node_to_id, h)
        THEN /\ hm_idx' = hm_idx + 1
             /\ UNCHANGED <<inst, pc, error, message, visited_nodes, queue, first>>
        ELSE /\ hypermodels' = Register(hypermodels, h)
             /\ hypermodel_to_id' = RegisterId(hypermodels, hypermodel_to_id, h)
             /\ node_to_id' = AddNodes(node_to_id, hyper_outputs[h])
             /\ UNCHANGED nodes
             /\ IF MissingInput(node_to_id', h)
                THEN /\ pc' = "error"
                     /\ error' = "missing_input"
                     /\ message' = MissingInputMessage(h)
                     /\ UNCHANGED <<hm_idx, visited_nodes, queue>>
                     /\ Record("missing_input", AddNodes(node_to_id, hyper_outputs[h]),
                               Register(hypermodels, h),
                               RegisterId(hypermodels, hypermodel_to_id, h))
                ELSE /\ queue' = queue \o NewlyVisited(node_to_id', visited_nodes, h)
                     /\ visited_nodes' =
                            visited_nodes \cup Range(NewlyVisited(node_to_id', visited_nodes, h))
                     /\ hm_idx' = hm_idx + 1
                     /\ UNCHANGED <<pc, error, message, first>>
    /\ UNCHANGED <<topo, root_idx, entered, input_node, runs, mat>>

\* (variant) the producer is taken without indexing the list
HasProducerAlways(n) == TRUE

\* line 111: output_node.in_hypermodels[0] exists
HasProducer(n) == in_hypermodels(n) # <<>>

\* lines 110-112: the producer of every designated output gets its output shape
Finalize ==
    /\ pc = "order"
    /\ LoopDone
    /\ queue = <<>>
    /\ IF \E i \in 1 .. Len(outputs) : ~HasProducer(outputs[i])
       THEN /\ pc' = "error"
            /\ error' = "index_error"
            /\ message' = IndexErrorMessage
            /\ Record("index_error", node_to_id, hypermodels, hypermodel_to_id)
       ELSE /\ pc' = "built"
            /\ error' = "none"
            /\ message' = NoMessage
            /\ Record("none", node_to_id, hypermodels, hypermodel_to_id)
    /\ UNCHANGED <<topo, inst, root_idx, entered, visited_nodes, queue, input_node, hm_idx, runs, mat>>

\* ------------------------------------------------------------------ build
\* the concrete values: <<>> is None, <<0, n, h>> is what input_node.build(hp)
\* gives for node n, <<b, i, h>> is output i of block b's own build function
None == <<>>

InputValue(n, h) == <<0, n, h>>

\* hyper_block.py lines 39-40, 58-67: the block's own build function, self._build,
\* giving one value for every output position
OwnBuild(b, h, temp_inputs) == [i \in 1 .. Len(hyper_outputs[b]) |-> <<b, i, h>>]

\* hyper_block.py lines 42-44: the build function is called, its result dropped
BuildWithNameScope(b, h, temp_inputs) == LET result == OwnBuild(b, h, temp_inputs) IN None

\* layer_utils.format_inputs: a list stays as it is, anything else is wrapped
FormatInputs(x) == IF x = None THEN <<None>> ELSE x

\* zip(hypermodel.outputs, outputs) of line 63: the pairs up to the shorter length
ZipLen(a, b) == IF Len(a) <= Len(b) THEN Len(a) ELSE Len(b)

\* (variant) a lookup with a default, real_nodes.get(...)
GetOrNone(rn, n) ==
    [ok |-> TRUE,
     value |-> IF n \in DOMAIN node_to_id /\ node_to_id[n] \in DOMAIN rn
               THEN rn[node_to_id[n]] ELSE None]

\* real_nodes[self._node_to_id[node]] (lines 58, 67, 69): the value, or KeyError
Get(rn, n) ==
    IF n \in DOMAIN node_to_id /\ node_to_id[n] \in DOMAIN rn
    THEN [ok |-> TRUE, value |-> rn[node_to_id[n]]]
    ELSE [ok |-> FALSE, value |-> None]

\* (variant) the loop goes through the keys of _hypermodel_to_id, sorted
BuildOrderById == SortedSeq(DOMAIN hypermodel_to_id)

\* line 57: the hypermodels the loop goes through, in order
BuildOrder == hypermodels

RECURSIVE Store(_, _, _, _)
\* lines 63-65: real_nodes[self._node_to_id[output_node]] = real_output_node
Store(rn, outs, vals, k) ==
    IF k = 0 THEN rn
    ELSE [x \in DOMAIN Store(rn, outs, vals, k - 1) \cup {node_to_id[outs[k]]} |->
             IF x = node_to_id[outs[k]] THEN vals[k] ELSE Store(rn, outs, vals, k - 1)[x]]

\* (variant) one real_nodes mapping for all the calls
SharedRealNodes(c) == real_nodes[Min(Calls)]

\* line 53: real_nodes is a local of the call
OwnRealNodes(c) == real_nodes[c]

\* lines 53-56: a new real_nodes holding the built input nodes
BuildStart(c, h) ==
    /\ pc = "built"
    /\ build_pc[c] = "idle"
    /\ hp' = [hp EXCEPT ![c] = h]
    /\ real_nodes' = [real_nodes EXCEPT ![c] =
           [x \in {node_to_id[n] : n \in Range(inputs)} |->
               InputValue(CHOOSE n \in Range(inputs) : node_to_id[n] = x, h)]]
    /\ build_idx' = [build_idx EXCEPT ![c] = 1]
    /\ build_pc' = [build_pc EXCEPT ![c] = "loop"]
    /\ UNCHANGED <<topo, inst, ctrl, hist, invoked, model>>

\* one iteration of the loop of lines 57-65
BuildHypermodel(c) ==
    /\ build_pc[c] = "loop"
    /\ build_idx[c] <= Len(BuildOrder)
    /\ LET b == BuildOrder[build_idx[c]]
           ins == hyper_inputs[b]
       IN  IF \E i \in 1 .. Len(ins) : ~Get(OwnRealNodes(c), ins[i]).ok
           THEN /\ build_pc' = [build_pc EXCEPT ![c] = "key_error"]
                /\ UNCHANGED <<real_nodes, build_idx, invoked>>
           ELSE LET temp_inputs == [i \in 1 .. Len(ins) |-> Get(OwnRealNodes(c), ins[i]).value]
                    outs == FormatInputs(BuildWithNameScope(b, hp[c], temp_inputs))
                IN  /\ invoked' = [invoked EXCEPT ![c] =
                           Append(@, [hypermodel |-> b, hp |-> hp[c], inputs |-> temp_inputs,
                                      have |-> DOMAIN OwnRealNodes(c)])]
                    /\ real_nodes' = [real_nodes EXCEPT ![c] =
                           Store(OwnRealNodes(c), hyper_outputs[b], outs, ZipLen(hyper_outputs[b], outs))]
                    /\ build_idx' = [build_idx EXCEPT ![c] = @ + 1]
                    /\ UNCHANGED build_pc
    /\ UNCHANGED <<topo, inst, ctrl, hist, hp, model>>

\* lines 66-72: the model over the concrete inputs and outputs
BuildReturn(c) ==
    /\ build_pc[c] = "loop"
    /\ build_idx[c] > Len(BuildOrder)
    /\ IF \E n \in Range(inputs \o outputs) : ~Get(OwnRealNodes(c), n).ok
       THEN /\ build_pc' = [build_pc EXCEPT ![c] = "key_error"]
            /\ UNCHANGED model
       ELSE /\ build_pc' = [build_pc EXCEPT ![c] = "returned"]
            /\ model' = [model EXCEPT ![c] =
                   <<[i \in 1 .. Len(inputs) |-> Get(OwnRealNodes(c), inputs[i]).value],
                     [i \in 1 .. Len(outputs) |-> Get(OwnRealNodes(c), outputs[i]).value]>>]
    /\ UNCHANGED <<topo, inst, ctrl, hist, hp, real_nodes, build_idx, invoked>>

Next ==
    \/ Construct
    \/ BuildNetwork
    \/ Rederive
    \/ SearchRoot
    \/ StartOrdering
    \/ QueueGet
    \/ VisitHypermodel
    \/ Finalize
    \/ \E c \in Calls, h \in HpSamples : BuildStart(c, h)
    \/ \E c \in Calls : BuildHypermodel(c)
    \/ \E c \in Calls : BuildReturn(c)

Spec == Init /\ [][Next]_vars

\* ------------------------------------------------------------------ reference graph notions
\* the nodes one block away from n
Succ(n) ==
    {m \in Nodes : \E b \in Blocks : n \in Range(hyper_inputs[b]) /\ m \in Range(hyper_outputs[b])}

RECURSIVE Closure(_)
\* the nodes reachable from S, paths of length zero included
Closure(S) ==
    LET T == S \cup UNION {Succ(n) : n \in S} IN IF T = S THEN S ELSE Closure(T)

\* n lies on a directed cycle
OnCycle(n) == n \in Closure(Succ(n))

HasCycle == \E n \in Nodes : OnCycle(n)

ReachableCycle == \E n \in Closure(Range(inputs)) : OnCycle(n)

\* the nodes on some path from a designated input to a designated output
Induced == {n \in Closure(Range(inputs)) : Closure({n}) \cap Range(outputs) # {}}

\* the blocks on some path from a designated input to a designated output
OnPath(b) == Range(hyper_inputs[b]) \cap Induced # {} /\ Range(hyper_outputs[b]) \cap Induced # {}

\* some designated node has no path to the other side
Unconnected ==
    \/ \E n \in Range(inputs) : Closure({n}) \cap Range(outputs) = {}
    \/ \E n \in Range(outputs) : n \notin Closure(Range(inputs))

Count(s, x) == Cardinality({i \in 1 .. Len(s) : s[i] = x})

\* the output nodes of the blocks before position k of the order
Produced(k) == UNION {Range(hyper_outputs[hypermodels[j]]) : j \in 1 .. (k - 1)}

\* ------------------------------------------------------------------ C1
\* C1: on an acyclic graph whose construction succeeded the block order is
\* topological: every input node of the block at position k is a designated
\* input or an output node of a block at a position before k.
C1_TopologicalOrder ==
    (pc = "built" /\ ~HasCycle) =>
        \A k \in 1 .. Len(hypermodels) :
            Range(hyper_inputs[hypermodels[k]]) \subseteq Range(inputs) \cup Produced(k)

\* ------------------------------------------------------------------ C2
\* C2 as stated: whenever the graph contains a directed cycle, a derivation
\* that ended has ended in the Cycle error with no block registered.
C2_AnyCycleRaises ==
    (HasCycle /\ pc \in {"error", "built"}) =>
        (pc = "error" /\ error = "cycle" /\ hypermodels = <<>>)

\* C2 amended: whenever a directed cycle is reachable from a designated input,
\* the derivation never gets past discovery, it ends in the Cycle error only,
\* and no block is registered at any moment up to and including the error.
C2_ReachableCycleRaises ==
    ReachableCycle =>
        /\ pc \in {"init", "search", "error"}
        /\ pc = "error" => error = "cycle"
        /\ hypermodels = <<>>

\* a Cycle error raised after ids were assigned
C2_Witness == pc = "error" /\ error = "cycle" /\ ReachableCycle /\ node_to_id # EmptyMap

\* ------------------------------------------------------------------ C3
\* C3: once discovery has ended without the Cycle error, a designated node
\* with no path to the other side makes the derivation end in the Disconnected
\* error with no block registered; and after a successful construction every
\* designated input and output holds an id.
C3_Disconnected ==
    /\ (Unconnected /\ (pc \in {"order", "built"} \/ (pc = "error" /\ error # "cycle"))) =>
           (pc = "error" /\ error = "disconnected" /\ hypermodels = <<>>)
    /\ pc = "built" => Range(inputs) \cup Range(outputs) \subseteq DOMAIN node_to_id

\* the Disconnected error for a designated output no input leads to, with
\* other nodes holding an id
C3_Witness ==
    /\ pc = "error"
    /\ error = "disconnected"
    /\ node_to_id # EmptyMap
    /\ \E n \in Range(outputs) : n \notin Closure(Range(inputs))

\* ------------------------------------------------------------------ C4
\* C4: on an acyclic graph, when the loop of _search_network calls has gone
\* through every designated input, the nodes holding an id are exactly the
\* nodes on some path from a designated input to a designated output.
C4_InducedSet ==
    (~HasCycle /\ pc = "search" /\ root_idx > Len(inputs)) => DOMAIN node_to_id = Induced

\* discovery ended with three nodes induced and a visited node left out
C4_Witness ==
    /\ ~HasCycle
    /\ pc = "search"
    /\ root_idx > Len(inputs)
    /\ Len(inputs) = 2
    /\ Cardinality(DOMAIN node_to_id) >= 3
    /\ Closure(Range(inputs)) \ DOMAIN node_to_id # {}

\* ------------------------------------------------------------------ C5
\* the blocks whose build step some call of build has invoked
InvokedBlocks ==
    UNION {{invoked[c][k].hypermodel : k \in 1 .. Len(invoked[c])} : c \in Calls}

\* C5 as stated: after a successful construction only nodes and blocks on some
\* path from a designated input to a designated output hold an id, and only
\* such blocks are built.
C5_NothingOffPath ==
    pc = "built" =>
        /\ DOMAIN node_to_id \subseteq Induced
        /\ \A b \in Range(hypermodels) \cup DOMAIN hypermodel_to_id \cup InvokedBlocks : OnPath(b)

\* C5 amended: after a successful construction only blocks on some path from a
\* designated input to a designated output hold an id or are built, and every
\* node holding an id is on such a path or is an output node of a registered
\* block (the sibling outputs of a registered block do receive an id).
C5_OffPathOnlySiblings ==
    pc = "built" =>
        /\ DOMAIN node_to_id \subseteq Induced \cup Produced(Len(hypermodels) + 1)
        /\ \A b \in Range(hypermodels) \cup DOMAIN hypermodel_to_id \cup InvokedBlocks : OnPath(b)

\* a sibling output off every path holds an id, a block off every path holds
\* none, and a registered block has been built
C5_Witness ==
    /\ pc = "built"
    /\ DOMAIN node_to_id \ Induced # {}
    /\ Blocks \ Range(hypermodels) # {}
    /\ InvokedBlocks # {}

\* ------------------------------------------------------------------ C6
\* C6 as stated: after a successful construction every block with an output
\* node in the induced set is in the block order exactly once.
C6_EveryProducerOnce ==
    pc = "built" =>
        \A b \in Blocks :
            Range(hyper_outputs[b]) \cap Induced # {} => Count(hypermodels, b) = 1

\* C6 amended: after a successful construction every block with an output
\* node and an input node in the induced set is in the block order exactly
\* once, and no block is in the block order twice.
C6_EveryOnPathBlockOnce ==
    pc = "built" =>
        /\ \A b \in Blocks : OnPath(b) => Count(hypermodels, b) = 1
        /\ \A b \in Blocks : Count(hypermodels, b) <= 1

\* a block reached from two designated inputs, registered once
C6_Witness ==
    /\ pc = "built"
    /\ \E b \in Range(hypermodels) :
           /\ Len(hyper_inputs[b]) = 2
           /\ Range(hyper_inputs[b]) = Range(inputs)
           /\ Count(hypermodels, b) = 1

\* ------------------------------------------------------------------ C7
\* C7: every derivation on the same graph, by a further instance or by a
\* further call of _build_network on the same instance, ends as the first one
\* did: in the same error, or with the same node ids, block ids and block order.
C7_Deterministic ==
    (pc \in {"built", "error"} /\ first # <<>>) =>
        first[1] = Outcome(error, node_to_id, hypermodels, hypermodel_to_id)

\* a second derivation that registered two blocks has ended
C7_Witness == pc = "built" /\ runs = 2 /\ Len(hypermodels) >= 2

\* ------------------------------------------------------------------ C8
\* f maps its domain one-to-one onto 0 .. count-1
Dense(f) ==
    /\ \A x \in DOMAIN f : f[x] \in 0 .. (Cardinality(DOMAIN f) - 1)
    /\ \A x, y \in DOMAIN f : f[x] = f[y] => x = y

\* an id, once given, is the same in the next state of the same mapping
Kept(f, g) == \A x \in DOMAIN f \cap DOMAIN g : f[x] = g[x]

\* C8: in every state node_to_id maps the nodes holding an id one-to-one onto
\* 0..count-1, hypermodel_to_id maps the registered blocks one-to-one onto
\* 0..count-1 with the block at position i of the order holding id i-1, and
\* no step changes an id that is already given.
C8_DenseIds ==
    /\ [](/\ Dense(node_to_id)
          /\ Dense(hypermodel_to_id)
          /\ DOMAIN hypermodel_to_id = Range(hypermodels)
          /\ \A i \in 1 .. Len(hypermodels) : hypermodel_to_id[hypermodels[i]] = i - 1)
    /\ [][Kept(node_to_id, node_to_id') /\ Kept(hypermodel_to_id, hypermodel_to_id')]_vars

\* the ordering pass under way with four node ids and two block ids given
C8_Witness ==
    /\ pc = "order"
    /\ Cardinality(DOMAIN node_to_id) = 4
    /\ Len(hypermodels) = 2

\* ------------------------------------------------------------------ C9
\* the blocks whose build step call c invoked, in the order of the invocations
InvokedSeq(c) == [k \in 1 .. Len(invoked[c]) |-> invoked[c][k].hypermodel]

\* C9: a call of build that completed has invoked the build step of each block
\* of the block order exactly once, in the block order, whatever its
\* hyperparameter sample: two completed calls made the same invocations.
C9_BuildFollowsOrder ==
    /\ \A c \in Calls :
           build_pc[c] = "returned" =>
               /\ InvokedSeq(c) = hypermodels
               /\ \A b \in Range(hypermodels) : Count(InvokedSeq(c), b) = 1
    /\ \A c, d \in Calls :
           (build_pc[c] = "returned" /\ build_pc[d] = "returned") =>
               InvokedSeq(c) = InvokedSeq(d)

\* two calls with different samples completed on a two-block order
C9_Witness ==
    /\ \A c \in Calls : build_pc[c] = "returned"
    /\ \E c, d \in Calls : hp[c] # hp[d]
    /\ Len(hypermodels) >= 2

\* ------------------------------------------------------------------ C10
\* C10: a block's build step is invoked only when real_nodes of the call holds
\* a value for every input node of the block; a call that finds a value
\* missing ends in the error without having invoked the block; and real_nodes
\* of a call holds nothing but what the call itself stored.
C10_NoMissingValue ==
    \A c \in Calls :
        /\ \A k \in 1 .. Len(invoked[c]) :
               \A n \in Range(hyper_inputs[invoked[c][k].hypermodel]) :
                   n \in DOMAIN node_to_id /\ node_to_id[n] \in invoked[c][k].have
        /\ (build_pc[c] = "key_error" /\ build_idx[c] <= Len(hypermodels)) =>
               /\ Len(invoked[c]) = build_idx[c] - 1
               /\ \E n \in Range(hyper_inputs[hypermodels[build_idx[c]]]) :
                      node_to_id[n] \notin DOMAIN real_nodes[c]
        /\ \A x \in DOMAIN real_nodes[c] :
               \/ \E n \in Range(inputs) : node_to_id[n] = x
               \/ \E k \in 1 .. Len(invoked[c]) :
                      \E n \in Range(hyper_outputs[invoked[c][k].hypermodel]) : node_to_id[n] = x
        /\ \A x \in DOMAIN real_nodes[c] :
               real_nodes[c][x] # None => real_nodes[c][x][3] = hp[c]

\* a call ended in the error at a block one of whose inputs had no value
C10_Witness ==
    \E c \in Calls :
        /\ build_pc[c] = "key_error"
        /\ build_idx[c] <= Len(hypermodels)
        /\ \E n \in Range(hyper_inputs[hypermodels[build_idx[c]]]) :
               node_to_id[n] \notin DOMAIN real_nodes[c]

\* ------------------------------------------------------------------ C11
\* C11: in every state, a block in the block order with an input node outside
\* the induced set is the block registered last, and the derivation has ended
\* in the MissingInput error; the MissingInput error carries the message
\* formatted with the name of the block registered last, and that block has
\* an input node outside the induced set (a registered block all of whose
\* inputs are in the induced set does not raise it).
C11_MissingInput ==
    /\ \A k \in 1 .. Len(hypermodels) :
           ~(Range(hyper_inputs[hypermodels[k]]) \subseteq Induced) =>
               /\ k = Len(hypermodels)
               /\ pc = "error"
               /\ error = "missing_input"
    /\ (pc = "error" /\ error = "missing_input") =>
           /\ hypermodels # <<>>
           /\ message = MissingInputMessage(hypermodels[Len(hypermodels)])
           /\ ~(Range(hyper_inputs[hypermodels[Len(hypermodels)]]) \subseteq Induced)

\* the MissingInput error for a merge block fed by a designated input and by
\* a node no designated input leads to
C11_Witness ==
    /\ pc = "error"
    /\ error = "missing_input"
    /\ \E n, x \in Range(hyper_inputs[hypermodels[Len(hypermodels)]]) :
           n \in Range(inputs) /\ x \notin Closure(Range(inputs))

\* ------------------------------------------------------------------ C12
\* a call of build with sample h run alone on the constructed instance: its
\* state when the call starts (lines 53-56) ...
SoloStart(h) ==
    [build_pc |-> "loop",
     real_nodes |-> [x \in {node_to_id[n] : n \in Range(inputs)} |->
                        InputValue(CHOOSE n \in Range(inputs) : node_to_id[n] = x, h)],
     build_idx |-> 1,
     model |-> <<>>]

\* ... and after one more step: an iteration of the loop of lines 57-65, or
\* lines 66-72
SoloStep(s, h) ==
    IF s.build_pc # "loop" THEN s
    ELSE IF s.build_idx <= Len(hypermodels)
    THEN LET b == hypermodels[s.build_idx]
             ins == hyper_inputs[b]
         IN  IF \E i \in 1 .. Len(ins) : ~Get(s.real_nodes, ins[i]).ok
             THEN [s EXCEPT !.build_pc = "key_error"]
             ELSE LET temp_inputs == [i \in 1 .. Len(ins) |-> Get(s.real_nodes, ins[i]).value]
                      outs == FormatInputs(BuildWithNameScope(b, h, temp_inputs))
                  IN  [s EXCEPT !.real_nodes = Store(@, hyper_outputs[b], outs,
                                                     ZipLen(hyper_outputs[b], outs)),
                                !.build_idx = @ + 1]
    ELSE IF \E n \in Range(inputs \o outputs) : ~Get(s.real_nodes, n).ok
         THEN [s EXCEPT !.build_pc = "key_error"]
         ELSE [s EXCEPT !.build_pc = "returned",
                        !.model = <<[i \in 1 .. Len(inputs) |-> Get(s.real_nodes, inputs[i]).value],
                                    [i \in 1 .. Len(outputs) |-> Get(s.real_nodes, outputs[i]).value]>>]

RECURSIVE SoloRun(_, _)
SoloRun(h, k) == IF k = 0 THEN SoloStart(h) ELSE SoloStep(SoloRun(h, k - 1), h)

\* the state of call c, and the number of steps it has made since it started
CallState(c) ==
    [build_pc |-> build_pc[c], real_nodes |-> real_nodes[c],
     build_idx |-> build_idx[c], model |-> model[c]]

StepsMade(c) == IF build_pc[c] = "loop" THEN build_idx[c] - 1 ELSE build_idx[c]

\* C12: no step of a call of build changes node_to_id, nodes, the block order
\* or hypermodel_to_id, and under every interleaving of the steps of the calls
\* each call holds in real_nodes, and gives to the model, exactly what a call
\* with the same sample run alone holds after the same number of steps.
C12_CallsIndependent ==
    /\ [](\A c \in Calls : build_pc[c] # "idle" => CallState(c) = SoloRun(hp[c], StepsMade(c)))
    /\ [][mat' # mat => UNCHANGED inst]_vars

\* two calls with different samples, both past their first block and neither
\* one ended: their steps were interleaved
C12_Witness ==
    /\ \A c \in Calls : build_pc[c] = "loop" /\ build_idx[c] >= 2
    /\ \E c, d \in Calls : hp[c] # hp[d]

\* ------------------------------------------------------------------ C13
\* the graph is one designated input feeding block b alone, whose only output
\* is the one designated output and feeds nothing
SingleChain(b) ==
    /\ Len(inputs) = 1
    /\ Len(outputs) = 1
    /\ hyper_inputs[b] = <<inputs[1]>>
    /\ hyper_outputs[b] = <<outputs[1]>>
    /\ out_hypermodels(inputs[1]) = <<b>>
    /\ out_hypermodels(outputs[1]) = <<>>
    /\ in_hypermodels(inputs[1]) = <<>>

\* C13 as stated: on such a graph a derivation that ended has succeeded with
\* the block order [b], the input holding id 0 and the output holding id 1.
C13_InputFirst ==
    \A b \in Blocks :
        (SingleChain(b) /\ pc \in {"built", "error"}) =>
            /\ pc = "built"
            /\ hypermodels = <<b>>
            /\ node_to_id[inputs[1]] = 0
            /\ node_to_id[outputs[1]] = 1

\* C13 amended: on such a graph a derivation that ended has succeeded with
\* the block order [b] and b holding id 0; the output holds id 0 and the
\* input holds id 1, as _search_network gives a node its id when it returns.
C13_OutputFirst ==
    \A b \in Blocks :
        (SingleChain(b) /\ pc \in {"built", "error"}) =>
            /\ pc = "built"
            /\ hypermodels = <<b>>
            /\ hypermodel_to_id = (b :> 0)
            /\ node_to_id = (outputs[1] :> 0) @@ (inputs[1] :> 1)
            /\ nodes = <<outputs[1], inputs[1]>>

\* a construction that succeeded on such a graph
C13_Witness == pc = "built" /\ \E b \in Blocks : SingleChain(b)

\* ------------------------------------------------------------------ C14
\* some designated output has no block producing it
OrphanOutput == \E n \in Range(outputs) : in_hypermodels(n) = <<>>

\* C14: whenever a designated output has no block producing it, be it a
\* designated input as well or not, a derivation that ended has ended in the
\* Disconnected error: it has neither succeeded nor ended in another error.
C14_OrphanDisconnected ==
    (OrphanOutput /\ pc \in {"built", "error"}) => (pc = "error" /\ error = "disconnected")

\* the derivation that ends in the IndexError of line 111: the designated
\* output without a producer is a designated input too
C14_IndexError ==
    /\ pc = "error"
    /\ error = "index_error"
    /\ \E n \in Range(outputs) \cap Range(inputs) : in_hypermodels(n) = <<>>

\* ------------------------------------------------------------------ C15
\* a node as an exception would carry it
NodeRef(n) == <<"HyperNode", n>>

\* C15: the message of the Cycle error carries a node on a cycle, the message
\* of the Disconnected error carries a designated node that holds no id, and
\* the message of the MissingInput error carries the block registered last.
C15_ErrorsNameElement ==
    /\ (pc = "error" /\ error = "cycle") =>
           \E n \in Nodes : OnCycle(n) /\ NodeRef(n) \in Range(message.args)
    /\ (pc = "error" /\ error = "disconnected") =>
           \E n \in Range(inputs \o outputs) :
               n \notin DOMAIN node_to_id /\ NodeRef(n) \in Range(message.args)
    /\ (pc = "error" /\ error = "missing_input") =>
           Name(hypermodels[Len(hypermodels)]) \in Range(message.args)

\* the Cycle error of a block fed by its own output, its message formatted
\* with nothing
C15_SelfLoopUnnamed ==
    /\ pc = "error"
    /\ error = "cycle"
    /\ message.args = <<>>
    /\ \E b \in Blocks : inputs[1] \in Range(hyper_inputs[b]) \cap Range(hyper_outputs[b])

\* ------------------------------------------------------------------ C16
\* C16 as stated: after a successful construction no designated input has a
\* producing block and every designated output has exactly one.
C16_InputsUnproduced ==
    pc = "built" =>
        /\ \A n \in Range(inputs) : Len(in_hypermodels(n)) = 0
        /\ \A n \in Range(outputs) : Len(in_hypermodels(n)) = 1

\* C16 amended: after a successful construction every designated output has
\* exactly one producing block, and every designated input holds an id,
\* with or without a producing block.
C16_OutputsProduced ==
    pc = "built" =>
        /\ \A n \in Range(outputs) : Len(in_hypermodels(n)) = 1
        /\ \A n \in Range(inputs) : n \in DOMAIN node_to_id

\* a construction that succeeded with a designated input some block produces
C16_Witness ==
    /\ pc = "built"
    /\ \E n \in Range(inputs) : Len(in_hypermodels(n)) = 1

\* ------------------------------------------------------------------ C17
\* C17: once a call of build has made the build step of a block, real_nodes
\* of the call holds, under the id of every output node of the block, the
\* value the block's own build function gave for that output position.
C17_OutputsStored ==
    \A c \in Calls :
        \A k \in 1 .. Len(invoked[c]) :
            LET b == invoked[c][k].hypermodel IN
            \A i \in 1 .. Len(hyper_outputs[b]) :
                /\ node_to_id[hyper_outputs[b][i]] \in DOMAIN real_nodes[c]
                /\ real_nodes[c][node_to_id[hyper_outputs[b][i]]] =
                       OwnBuild(b, invoked[c][k].hp, invoked[c][k].inputs)[i]

\* a call that returned a model whose output is None: the value the block's
\* build function gave was dropped by _build_with_name_scope
C17_NoneReturned ==
    \E c \in Calls :
        /\ build_pc[c] = "returned"
        /\ \E i \in 1 .. Len(outputs) : model[c][2][i] = None /\ outputs[i] \notin Range(inputs)

\* ------------------------------------------------------------------ C18
\* C18 as stated: over the whole loop of lines 78-79 _search_network is
\* called on every node once at most.
C18_EnteredOnce == \A n \in Nodes : Count(Flatten(entered), n) <= 1

\* C18 amended: every call of line 79 starts at its designated input with a
\* visited set of its own, and within that call _search_network is called on
\* every node once at most; over the whole loop a node is entered once at
\* most for every designated input gone through.
C18_EnteredOncePerRoot ==
    /\ Len(entered) <= Len(inputs)
    /\ \A k \in 1 .. Len(entered) :
           /\ entered[k][1] = inputs[k]
           /\ \A n \in Nodes : Count(entered[k], n) <= 1
    /\ \A n \in Nodes : Count(Flatten(entered), n) <= Len(entered)

\* discovery ended with a node entered in the traversal of each of the two
\* designated inputs, and with a node entered once in a traversal that came
\* upon it from two nodes
C18_Witness ==
    /\ pc = "search"
    /\ root_idx > Len(inputs)
    /\ Len(entered) = 2
    /\ \E n \in Nodes : Count(entered[1], n) = 1 /\ Count(entered[2], n) = 1
    /\ \E k \in 1 .. 2, n \in Nodes :
           /\ Count(entered[k], n) = 1
           /\ Cardinality({m \in Range(entered[k]) : n \in Succ(m)}) = 2

\* ------------------------------------------------------------------ C19
\* the loop of lines 78-79 is over: it went through every designated input,
\* or it was left by the exception of line 126
DiscoveryEnded ==
    \/ pc = "search" /\ root_idx > Len(inputs)
    \/ pc \in {"order", "built", "error"}

\* C19: once discovery is over, the Cycle error has been raised if and only
\* if some node reachable from a designated input lies on a directed cycle,
\* whether or not the cycle leads to a designated output: a cycle no
\* designated input reaches is not reported, and no Cycle error is raised when
\* the region reachable from the designated inputs is acyclic.
C19_CycleIffReachable ==
    DiscoveryEnded => ((pc = "error" /\ error = "cycle") <=> ReachableCycle)

\* the Cycle error for a cycle none of whose nodes is on a path from a
\* designated input to a designated output, on a graph where such a path exists
C19_Witness ==
    /\ pc = "error"
    /\ error = "cycle"
    /\ Induced # {}
    /\ \A n \in Nodes : OnCycle(n) => n \notin Induced

\* ------------------------------------------------------------------ C20
\* C20: on an acyclic graph, when the loop of _search_network calls has gone
\* through every designated input, for every block the id of an output node
\* in the induced set is smaller than the id of an input node in the induced
\* set, and every node downstream of a designated input that holds an id
\* holds a smaller id than the designated input.
C20_PostOrderIds ==
    (~HasCycle /\ pc = "search" /\ root_idx > Len(inputs)) =>
        /\ \A b \in Blocks :
               \A n \in Range(hyper_inputs[b]) \cap Induced :
                   \A m \in Range(hyper_outputs[b]) \cap Induced :
                       /\ n \in DOMAIN node_to_id
                       /\ m \in DOMAIN node_to_id
                       /\ node_to_id[m] < node_to_id[n]
        /\ \A n \in Range(inputs) \cap DOMAIN node_to_id :
               \A m \in Closure(Succ(n)) \cap DOMAIN node_to_id :
                   node_to_id[m] < node_to_id[n]

\* discovery ended on an acyclic graph with two designated inputs, the second
\* one feeding a node of the induced set that the traversal of the first one
\* entered and gave an id
C20_Witness ==
    /\ ~HasCycle
    /\ pc = "search"
    /\ root_idx > Len(inputs)
    /\ Len(inputs) = 2
    /\ \E m \in Succ(inputs[2]) \cap Induced : m \in Range(entered[1])
====
